---- MODULE Spec2Model ----
(***************************************************************************)
(* A model of zeronsd's src/utils.rs: the hostname sanitizer (to_hostname, *)
(* to_fqdn, parse_member_name), domain and token resolution                *)
(* (domain_or_default, central_token) and the read-modify-write publishing *)
(* of the DNS settings to the central API (update_central_dns).            *)
(*                                                                         *)
(* Text is a sequence of one-character strings.  The alphabet holds one or *)
(* two representatives of every character class the code distinguishes:    *)
(* a lower-case letter, an upper-case letter, a digit, '_', '-', '.', a    *)
(* white-space character and a character the catch-all rule deletes.  All  *)
(* of them are ASCII: punycode encoding of non-ASCII labels and the escape *)
(* syntax of DNS names ('\') are outside the model, as are the 63-byte     *)
(* label and 255-byte name limits, which no text within the bounds meets.  *)
(***************************************************************************)
EXTENDS Integers, Sequences, FiniteSets

VARIABLES
    \* ---- NameSanitizer (to_hostname)
    label,          \* the input Label (self)
    hres,           \* the Result<Name, Error> of to_hostname, or Pending
    \* ---- name ingestion (parse_member_name called for one name after another)
    ingested,       \* how many names were processed so far
    sawBad,         \* a processed name was skipped
    lastName,       \* the Option<String> handed to the last call
    lastRes,        \* the Option<Name> the last call returned
    \* ---- DomainResolver (domain_or_default)
    tld,            \* the Option<&str> argument
    domRes,         \* its Result<Name, Error>, or Pending
    \* ---- TokenResolver (central_token)
    tokArg,         \* the Option<&str> argument: a path or None
    tokFile,        \* what reading that path gives: its contents, or Unreadable
    tokEnv,         \* ZEROTIER_CENTRAL_TOKEN: its value, or Unset
    tokRes,         \* the outcome of the call, or Pending
    \* ---- NetworkDnsSynchronizer (update_central_dns)
    remote,         \* the network resource as stored by the central API
    pc,             \* position of the one call: "start", "fetched", "done"
    domain_name,    \* argument: the Domain
    ip,             \* argument: the ListenAddress
    fetched,        \* the resource the GET returned (zt_network as fetched)
    written,        \* the body of the PUT
    beforePut,      \* the remote resource at the moment the PUT arrived
    result,         \* the call's Result: "none" (running), "ok", "err"
    gets,           \* number of GET requests issued
    puts,           \* number of PUT requests issued
    putReply,       \* what update_network answered: "none", "ok", "failed"
    writes          \* number of changes made by other writers

sanVars == <<label, hres>>
ingVars == <<ingested, sawBad, lastName, lastRes>>
domVars == <<tld, domRes>>
tokVars == <<tokArg, tokFile, tokEnv, tokRes>>
synVars == <<remote, pc, domain_name, ip, fetched, written, beforePut, result,
             gets, puts, putReply, writes>>
vars == <<sanVars, ingVars, domVars, tokVars, synVars>>

----------------------------------------------------------------------------
(* Bounds *)

\* longest Label handed to to_hostname
MaxLen == 4
\* longest name handed to parse_member_name
MaxNameLen == 3
\* number of names ingested one after another
MaxNames == 3
\* longest string handed to domain_or_default
MaxTldLen == 3
\* longest token file contents / environment value
MaxTokLen == 2
\* number of changes other writers make to the remote resource
MaxWrites == 2

----------------------------------------------------------------------------
(* Text *)

Alphabet == {"a", "A", "1", "_", "-", ".", " ", "!"}

Strings(S, n) == UNION {[1..k -> S] : k \in 0..n}

\* char::is_whitespace / the regex class \s (Unicode White_Space)
IsWhitespace(c) == c = " "
\* the regex class \d
IsDigit(c) == c = "1"
\* the letters of the alphabet and of DOMAIN_NAME
IsLetter(c) == c \in {"a", "A", "d", "i", "m", "n", "o"}
\* the regex class \w: letters, digits and '_'
IsWord(c) == IsLetter(c) \/ IsDigit(c) \/ c = "_"
\* char::is_alphanumeric
IsAlphanumeric(c) == IsLetter(c) \/ IsDigit(c)

\* char::to_lowercase, as the IDNA mapping applies it
Lower(c) == IF c = "A" THEN "a" ELSE c
LowerAll(s) == [i \in 1..Len(s) |-> Lower(s[i])]

RECURSIVE TrimStart(_)
TrimStart(s) ==
    IF s = <<>> THEN <<>>
    ELSE IF IsWhitespace(Head(s)) THEN TrimStart(Tail(s)) ELSE s

RECURSIVE TrimEnd(_)
TrimEnd(s) ==
    IF s = <<>> THEN <<>>
    ELSE IF IsWhitespace(s[Len(s)]) THEN TrimEnd(SubSeq(s, 1, Len(s) - 1)) ELSE s

\* str::trim
Trim(s) == TrimEnd(TrimStart(s))

\* str::ends_with(".")
EndsWithDot(s) == s # <<>> /\ s[Len(s)] = "."

----------------------------------------------------------------------------
(* Results *)

Pending == [pending |-> TRUE]
None == [some |-> FALSE]
Some(v) == [some |-> TRUE, value |-> v]
Ok(n) == [ok |-> TRUE, name |-> n]
\* an error: which rule raised it, and the text its message quotes
Err(r, t) == [ok |-> FALSE, reason |-> r, carried |-> t]

----------------------------------------------------------------------------
(* DNS names, as the trust-dns Name the code builds: a sequence of labels  *)
(* and the is_fqdn flag.                                                   *)

RootName == [labels |-> <<>>, fqdn |-> TRUE]

RECURSIVE JoinLabels(_)
JoinLabels(ls) ==
    IF ls = <<>> THEN <<>>
    ELSE IF Len(ls) = 1 THEN ls[1]
    ELSE ls[1] \o <<".">> \o JoinLabels(Tail(ls))

\* Name::to_string: the labels joined by '.', and a final '.' for an
\* absolute name
to_string(n) == JoinLabels(n.labels) \o (IF n.fqdn THEN <<".">> ELSE <<>>)

\* is_safe_ascii(c, is_first, for_encoding = false)
IsSafeAscii(c, isFirst) ==
    \/ IsAlphanumeric(c)
    \/ c = "-" /\ ~isFirst
    \/ c = "_"
    \/ c = "."

\* Label::from_ascii: the label as written, when it is non-empty and safe
LabelFromAscii(l) ==
    IF /\ l # <<>>
       /\ IsSafeAscii(l[1], TRUE)
       /\ \A i \in 2..Len(l) : IsSafeAscii(l[i], FALSE)
    THEN [ok |-> TRUE, label |-> l]
    ELSE Err("malformed_label", l)

\* the IDNA to_ascii of one ASCII label under use_std3_ascii_rules and
\* verify_dns_length: letters are lower-cased, anything but letters, digits
\* and '-' is refused, and so is the empty label
IdnaValid(l) == l # <<>> /\ \A i \in 1..Len(l) : IsAlphanumeric(l[i]) \/ l[i] = "-"

\* Label::from_utf8: a label starting with '_' is taken as ASCII (SRV
\* names), any other goes through IDNA first
LabelFromUtf8(l) ==
    IF l # <<>> /\ l[1] = "_" THEN LabelFromAscii(l)
    ELSE IF IdnaValid(l) THEN LabelFromAscii(LowerAll(l))
    ELSE Err("invalid_characters", <<>>)

ToLabel(enc, l) == IF enc = "utf8" THEN LabelFromUtf8(l) ELSE LabelFromAscii(l)

\* the character loop of Name::from_encoded_str: '.' ends a label, white
\* space is refused, any other character joins the current label
RECURSIVE ParseLoop(_, _, _, _)
ParseLoop(enc, rest, cur, labels) ==
    IF rest = <<>>
    THEN IF cur = <<>> THEN [ok |-> TRUE, labels |-> labels]
         ELSE LET l == ToLabel(enc, cur)
              IN  IF l.ok THEN [ok |-> TRUE, labels |-> Append(labels, l.label)]
                  ELSE l
    ELSE LET ch == Head(rest)
         IN  IF ch = "."
             THEN LET l == ToLabel(enc, cur)
                  IN  IF l.ok
                      THEN ParseLoop(enc, Tail(rest), <<>>, Append(labels, l.label))
                      ELSE l
             ELSE IF IsWhitespace(ch) THEN Err("unrecognized_char", <<ch>>)
             ELSE ParseLoop(enc, Tail(rest), Append(cur, ch), labels)

\* Name::from_encoded_str(local, None)
FromEncodedStr(enc, local) ==
    IF local = <<".">> THEN Ok(RootName)
    ELSE LET r == ParseLoop(enc, local, <<>>, <<>>)
         IN  IF r.ok THEN Ok([labels |-> r.labels, fqdn |-> EndsWithDot(local)])
             ELSE r

\* <&str as IntoName>::into_name: Name::from_utf8
into_name(s) == FromEncodedStr("utf8", s)

\* <Name as FromStr>::from_str: from_utf8, and from_ascii when that fails
NameFromStr(s) ==
    LET u == FromEncodedStr("utf8", s)
    IN  IF u.ok THEN u ELSE FromEncodedStr("ascii", s)

\* Name::append_domain: the labels of both, absolute
append_domain(n, domain) == [labels |-> n.labels \o domain.labels, fqdn |-> TRUE]

\* Name::set_fqdn
set_fqdn(n, val) == [n EXCEPT !.fqdn = val]

----------------------------------------------------------------------------
(* NameSanitizer *)

\* the two patterns of the table, as character classes
Matches(pattern, c) ==
    IF pattern = "whitespace" THEN IsWhitespace(c)
    ELSE ~(c = "." \/ IsWhitespace(c) \/ IsWord(c) \/ IsDigit(c) \/ c = "-")

\* the table with the first rule matching one character, not a run
translation_table_per_char ==
    << [pattern |-> "whitespace", run |-> FALSE, replacement |-> <<"-">>],
       [pattern |-> "disallowed", run |-> TRUE, replacement |-> <<>>] >>

translation_table ==
    << [pattern |-> "whitespace", run |-> TRUE, replacement |-> <<"-">>],
       [pattern |-> "disallowed", run |-> TRUE, replacement |-> <<>>] >>

RECURSIVE SkipRun(_, _)
SkipRun(rule, s) ==
    IF s # <<>> /\ Matches(rule.pattern, Head(s)) THEN SkipRun(rule, Tail(s)) ELSE s

\* Regex::replace_all for a pattern C+ (or C): every leftmost, longest match
\* is replaced
RECURSIVE replace_all(_, _)
replace_all(rule, s) ==
    IF s = <<>> THEN <<>>
    ELSE IF Matches(rule.pattern, Head(s))
         THEN rule.replacement \o
              replace_all(rule, IF rule.run THEN SkipRun(rule, Tail(s)) ELSE Tail(s))
         ELSE <<Head(s)>> \o replace_all(rule, Tail(s))

RECURSIVE ApplyTable(_, _)
ApplyTable(table, s) ==
    IF table = <<>> THEN s
    ELSE ApplyTable(Tail(table), replace_all(Head(table), s))

\* the text to_hostname validates: trimmed, rewritten by the table in its
\* order, trimmed again
Rewritten(self) == Trim(ApplyTable(translation_table, Trim(self)))

\* to_hostname returning the name in absolute form
to_hostname_absolute(self) ==
    LET s == Rewritten(self)
    IN  IF s = <<".">> \/ EndsWithDot(s) THEN Err("dot", s)
        ELSE IF Len(s) = 0 THEN Err("empty", self)
        ELSE LET r == into_name(Trim(s))
             IN  IF r.ok THEN Ok(set_fqdn(r.name, TRUE)) ELSE r

\* to_hostname without the test for a final '.'
to_hostname_no_dot_check(self) ==
    LET s == Rewritten(self)
    IN  IF Len(s) = 0 THEN Err("empty", self)
        ELSE into_name(Trim(s))

\* <String as ToHostname>::to_hostname
to_hostname(self) ==
    LET s == Rewritten(self)
    IN  IF s = <<".">> \/ EndsWithDot(s) THEN Err("dot", s)
        ELSE IF Len(s) = 0 THEN Err("empty", self)
        ELSE into_name(Trim(s))

\* to_fqdn: the sanitized name with the domain appended
to_fqdn(self, domain) ==
    LET r == to_hostname(self)
    IN  IF r.ok THEN Ok(append_domain(r.name, domain)) ELSE r

\* parse_member_name handing the sanitizer's error on to its caller
parse_member_name_propagating(name, domain) ==
    IF name.some
    THEN LET n == Trim(name.value)
         IN  IF Len(n) > 0 THEN LET r == to_fqdn(n, domain)
                                IN  IF r.ok THEN Some(r.name) ELSE r
             ELSE None
    ELSE None

\* parse_member_name
parse_member_name(name, domain) ==
    IF name.some
    THEN LET n == Trim(name.value)
         IN  IF Len(n) > 0 THEN LET r == to_fqdn(n, domain)
                                IN  IF r.ok THEN Some(r.name) ELSE None
             ELSE None
    ELSE None

----------------------------------------------------------------------------
(* DomainResolver *)

DOMAIN_NAME == <<"d", "o", "m", "a", "i", "n", ".">>

\* domain_or_default falling back to the default for an empty string
domain_or_default_fallback(t) ==
    IF t.some /\ Len(t.value) > 0 THEN NameFromStr(t.value \o <<".">>)
    ELSE NameFromStr(DOMAIN_NAME)

\* domain_or_default
domain_or_default(t) ==
    IF t.some
    THEN IF Len(t.value) > 0 THEN NameFromStr(t.value \o <<".">>)
         ELSE Err("empty_domain", <<>>)
    ELSE NameFromStr(DOMAIN_NAME)

----------------------------------------------------------------------------
(* TokenResolver *)

TokAlphabet == {"t", "u", " "}
Unreadable == [unreadable |-> TRUE]
Unset == [unset |-> TRUE]
Readable(text) == [unreadable |-> FALSE, text |-> text]
EnvValue(text) == [unset |-> FALSE, text |-> text]

\* the outcome of central_token: a panic, or the Option<String> returned,
\* with whether the environment variable was read on the way
Panic == [kind |-> "panic", envRead |-> FALSE]
Token(opt, envRead) == [kind |-> "returned", token |-> opt, envRead |-> envRead]

\* central_token looking at the environment before the file
central_token_env_first(arg, file, env) ==
    IF ~env.unset /\ Len(env.text) > 0 THEN Token(Some(env.text), TRUE)
    ELSE IF arg.some
         THEN IF file.unreadable THEN [Panic EXCEPT !.envRead = TRUE]
              ELSE Token(Some(Trim(file.text)), TRUE)
         ELSE Token(None, TRUE)

\* central_token
central_token(arg, file, env) ==
    IF arg.some
    THEN IF file.unreadable THEN Panic
         ELSE Token(Some(Trim(file.text)), FALSE)
    ELSE IF ~env.unset /\ Len(env.text) > 0 THEN Token(Some(env.text), TRUE)
         ELSE Token(None, TRUE)

----------------------------------------------------------------------------
(* NetworkDnsSynchronizer *)

Descriptions == {"d0", "d1"}
Routes == {"r0", "r1"}
Addresses == {"10.0.0.1", "10.0.0.2"}
Domains == { [labels |-> << <<"d", "o", "m", "a", "i", "n">> >>, fqdn |-> TRUE],
             [labels |-> << <<"a">>, <<"1">> >>, fqdn |-> TRUE] }

\* the dns settings a network may hold before the call
OldDns == { None,
            Some([domain |-> Some(<<"a">>), servers |-> Some(<<"10.0.0.2", "10.0.0.9">>)]) }
Configs == [routes : Routes, dns : OldDns]
Resources == [description : Descriptions,
              config : {None} \cup {Some(c) : c \in Configs}]
NoResource == [absent |-> TRUE]

\* the resource to write, with the new servers added to the old ones
with_dns_appended(zt_network, domain, listen) ==
    LET dn == set_fqdn(domain, FALSE)
        old == zt_network.config.value.dns
        servers == IF old.some THEN old.value.servers.value \o <<listen>>
                   ELSE <<listen>>
        dns == Some([domain |-> Some(to_string(dn)), servers |-> Some(servers)])
    IN  [zt_network EXCEPT !.config = Some([zt_network.config.value EXCEPT !.dns = dns])]

\* the resource update_central_dns writes back: the fetched one, with the
\* dns field of its config replaced
with_dns(zt_network, domain, listen) ==
    LET dn == set_fqdn(domain, FALSE)
        dns == Some([domain |-> Some(to_string(dn)), servers |-> Some(<<listen>>)])
    IN  [zt_network EXCEPT !.config = Some([zt_network.config.value EXCEPT !.dns = dns])]

\* the GET succeeds; without a config object the call returns Ok at once
FetchOk ==
    /\ pc = "start"
    /\ gets' = gets + 1
    /\ fetched' = remote
    /\ IF remote.config.some
       THEN pc' = "fetched" /\ result' = result
       ELSE pc' = "done" /\ result' = "ok"
    /\ UNCHANGED <<remote, domain_name, ip, written, beforePut, puts, putReply, writes>>

\* the GET fails: the error is returned
FetchFail ==
    /\ pc = "start"
    /\ gets' = gets + 1
    /\ pc' = "done"
    /\ result' = "err"
    /\ UNCHANGED <<remote, domain_name, ip, fetched, written, beforePut, puts, putReply, writes>>

\* the PUT succeeds: the central API stores the resource it was sent
UpdateOk ==
    /\ pc = "fetched"
    /\ puts' = puts + 1
    /\ written' = with_dns(fetched, domain_name, ip)
    /\ beforePut' = remote
    /\ remote' = written'
    /\ putReply' = "ok"
    /\ pc' = "done"
    /\ result' = "ok"
    /\ UNCHANGED <<domain_name, ip, fetched, gets, writes>>

\* a failing PUT answered by another PUT
UpdateFailRetry ==
    /\ pc = "fetched"
    /\ puts <= 1
    /\ puts' = puts + 1
    /\ written' = with_dns(fetched, domain_name, ip)
    /\ beforePut' = remote
    /\ remote' = remote
    /\ putReply' = "failed"
    /\ pc' = "fetched"
    /\ result' = result
    /\ UNCHANGED <<domain_name, ip, fetched, gets, writes>>

\* a failing PUT whose error is dropped: the call returns Ok
UpdateFailSwallowed ==
    /\ pc = "fetched"
    /\ puts' = puts + 1
    /\ written' = with_dns(fetched, domain_name, ip)
    /\ beforePut' = remote
    /\ remote' \in {remote, written'}
    /\ putReply' = "failed"
    /\ pc' = "done"
    /\ result' = "ok"
    /\ UNCHANGED <<domain_name, ip, fetched, gets, writes>>

\* the PUT fails, whether or not the central API stored the resource: the
\* error is returned
UpdateFail ==
    /\ pc = "fetched"
    /\ puts' = puts + 1
    /\ written' = with_dns(fetched, domain_name, ip)
    /\ beforePut' = remote
    /\ remote' \in {remote, written'}
    /\ putReply' = "failed"
    /\ pc' = "done"
    /\ result' = "err"
    /\ UNCHANGED <<domain_name, ip, fetched, gets, writes>>

\* another client of the central API changes the resource while the call
\* is under way
OtherWriter ==
    /\ pc # "done"
    /\ writes < MaxWrites
    /\ writes' = writes + 1
    /\ remote' \in Resources \ {remote}
    /\ UNCHANGED <<pc, domain_name, ip, fetched, written, beforePut, result, gets, puts,
                   putReply>>

----------------------------------------------------------------------------
(* Specifications *)

IdleSan == label = <<>> /\ hres = Pending
IdleIng == ingested = 0 /\ sawBad = FALSE /\ lastName = None /\ lastRes = None
IdleDom == tld = None /\ domRes = Pending
IdleTok == tokArg = None /\ tokFile = Unreadable /\ tokEnv = Unset /\ tokRes = Pending
IdleSyn ==
    /\ remote = NoResource /\ pc = "done" /\ domain_name = RootName /\ ip = ""
    /\ fetched = NoResource /\ written = NoResource /\ beforePut = NoResource
    /\ result = "none" /\ gets = 0 /\ puts = 0 /\ putReply = "none" /\ writes = 0

\* ---- update_central_dns, one call, next to other writers
Init ==
    /\ remote \in Resources
    /\ pc = "start"
    /\ domain_name \in Domains
    /\ ip \in Addresses
    /\ fetched = NoResource /\ written = NoResource /\ beforePut = NoResource
    /\ result = "none" /\ gets = 0 /\ puts = 0 /\ putReply = "none" /\ writes = 0
    /\ IdleSan /\ IdleIng /\ IdleDom /\ IdleTok

Next ==
    \/ FetchOk /\ UNCHANGED <<sanVars, ingVars, domVars, tokVars>>
    \/ FetchFail /\ UNCHANGED <<sanVars, ingVars, domVars, tokVars>>
    \/ UpdateOk /\ UNCHANGED <<sanVars, ingVars, domVars, tokVars>>
    \/ UpdateFail /\ UNCHANGED <<sanVars, ingVars, domVars, tokVars>>
    \/ OtherWriter /\ UNCHANGED <<sanVars, ingVars, domVars, tokVars>>

Spec == Init /\ [][Next]_vars

\* ---- to_hostname applied to every Label within the bound
InitSanitize ==
    /\ label \in Strings(Alphabet, MaxLen)
    /\ hres = Pending
    /\ IdleIng /\ IdleDom /\ IdleTok /\ IdleSyn

Sanitize ==
    /\ hres = Pending
    /\ hres' = to_hostname(label)
    /\ UNCHANGED <<label, ingVars, domVars, tokVars, synVars>>

SpecSanitize == InitSanitize /\ [][Sanitize]_vars

\* ---- parse_member_name applied to one candidate name after another
IngestDomain == [labels |-> << <<"d", "o", "m", "a", "i", "n">> >>, fqdn |-> TRUE]
NameAlphabet == {"a", ".", " ", "!"}
Candidates == {None} \cup {Some(s) : s \in Strings(NameAlphabet, MaxNameLen)}

InitIngest ==
    /\ IdleIng /\ IdleSan /\ IdleDom /\ IdleTok /\ IdleSyn

Ingest ==
    /\ ingested < MaxNames
    /\ \E name \in Candidates :
          /\ lastName' = name
          /\ lastRes' = parse_member_name(name, IngestDomain)
    /\ ingested' = ingested + 1
    /\ sawBad' = (sawBad \/ lastRes' = None)
    /\ UNCHANGED <<sanVars, domVars, tokVars, synVars>>

SpecIngest == InitIngest /\ [][Ingest]_vars

\* ---- domain_or_default applied to every argument within the bound
InitDomain ==
    /\ tld \in {None} \cup {Some(s) : s \in Strings(Alphabet, MaxTldLen)}
    /\ domRes = Pending
    /\ IdleSan /\ IdleIng /\ IdleTok /\ IdleSyn

ResolveDomain ==
    /\ domRes = Pending
    /\ domRes' = domain_or_default(tld)
    /\ UNCHANGED <<tld, sanVars, ingVars, tokVars, synVars>>

SpecDomain == InitDomain /\ [][ResolveDomain]_vars

\* ---- central_token under every file and environment within the bound
InitToken ==
    /\ tokArg \in {None, Some("/etc/token")}
    /\ tokFile \in {Unreadable} \cup {Readable(s) : s \in Strings(TokAlphabet, MaxTokLen)}
    /\ tokEnv \in {Unset} \cup {EnvValue(s) : s \in Strings(TokAlphabet, MaxTokLen)}
    /\ tokRes = Pending
    /\ IdleSan /\ IdleIng /\ IdleDom /\ IdleSyn

ResolveToken ==
    /\ tokRes = Pending
    /\ tokRes' = central_token(tokArg, tokFile, tokEnv)
    /\ UNCHANGED <<tokArg, tokFile, tokEnv, sanVars, ingVars, domVars, synVars>>

SpecToken == InitToken /\ [][ResolveToken]_vars

----------------------------------------------------------------------------
(* Properties of update_central_dns *)

\* the text of a name without its final '.'
RelativeText(n) ==
    LET s == to_string(n)
    IN  IF EndsWithDot(s) THEN SubSeq(s, 1, Len(s) - 1) ELSE s

\* C1: the resource written back equals the fetched resource in every field
\* but config.dns, and config.dns is {domain: the Domain without its final
\* '.', servers: [ListenAddress]} whatever dns the fetched config held.
C1_WriteBackOnlyDns ==
    puts >= 1 =>
        /\ fetched # NoResource
        /\ fetched.config.some
        /\ DOMAIN written = DOMAIN fetched
        /\ written.description = fetched.description
        /\ written.config.some
        /\ DOMAIN written.config.value = DOMAIN fetched.config.value
        /\ written.config.value.routes = fetched.config.value.routes
        /\ written.config.value.dns =
              Some([domain |-> Some(RelativeText(domain_name)), servers |-> Some(<<ip>>)])

\* a write has replaced dns settings that held another domain and two servers
C1_Witness ==
    /\ puts = 1
    /\ result = "ok"
    /\ fetched.config.value.dns.some
    /\ Len(fetched.config.value.dns.value.servers.value) = 2
    /\ remote = written

\* C9: at most one GET and one PUT are issued; a PUT only after a GET that
\* returned a resource with a config; once the call has returned, a PUT was
\* issued exactly when the GET succeeded with a config; a failed GET returns
\* an error with no PUT, a resource without config returns Ok with no PUT,
\* a failed PUT returns an error at once (the call is over, no second PUT)
\* and an answered PUT returns Ok.
C9_OneFetchOneUpdate ==
    /\ gets <= 1
    /\ puts <= 1
    /\ puts = 1 => gets = 1 /\ fetched # NoResource /\ fetched.config.some
    /\ puts = 0 <=> putReply = "none"
    /\ putReply = "failed" => pc = "done" /\ result = "err" /\ puts = 1
    /\ putReply = "ok" => pc = "done" /\ result = "ok" /\ puts = 1
    /\ pc = "done" =>
          /\ gets = 1
          /\ result \in {"ok", "err"}
          /\ puts = 1 <=> (fetched # NoResource /\ fetched.config.some)
          /\ fetched = NoResource => result = "err" /\ puts = 0
          /\ (fetched # NoResource /\ ~fetched.config.some) => result = "ok" /\ puts = 0
    /\ pc # "done" => result = "none"

\* the call has returned the error of its one PUT, issued after its one GET
C9_Witness ==
    /\ pc = "done" /\ result = "err"
    /\ gets = 1 /\ puts = 1 /\ putReply = "failed"
    /\ fetched # NoResource

\* C10: after the write, what another writer changed between the fetch and
\* the write in fields other than config.dns is still in the remote resource.
C10_OtherFieldsSurvive ==
    (pc = "done" /\ puts = 1 /\ result = "ok") =>
        /\ remote.description = beforePut.description
        /\ beforePut.config.some =>
              remote.config.value.routes = beforePut.config.value.routes

----------------------------------------------------------------------------
(* Properties of the sanitizer *)

Sanitized == hres # Pending /\ hres.ok
Rejected == hres # Pending /\ ~hres.ok

\* C2: sanitizing the text of a hostname the sanitizer returned succeeds and
\* gives the same hostname.
C2_Idempotent == Sanitized => to_hostname(to_string(hres.name)) = hres

\* a Label that sanitizing shortened
C2_Witness == Sanitized /\ Len(to_string(hres.name)) < Len(label)

\* C3: a hostname returned is not empty, is not ".", does not end with '.'
\* and holds only letters, digits, '_', '-' and '.'; a Label whose rewritten,
\* trimmed form is empty, "." or ends with '.' is rejected.
C3_ValidHostname ==
    /\ Sanitized =>
          LET t == to_string(hres.name)
          IN  /\ t # <<>>
              /\ t # <<".">>
              /\ ~EndsWithDot(t)
              /\ \A i \in 1..Len(t) :
                    IsLetter(t[i]) \/ IsDigit(t[i]) \/ t[i] \in {"_", "-", "."}
    /\ hres # Pending =>
          LET s == Rewritten(label)
          IN  (s = <<>> \/ s = <<".">> \/ EndsWithDot(s)) => ~hres.ok

\* a hostname of two labels from a Label with a deleted character
C3_Witness ==
    /\ Sanitized
    /\ \E i \in 1..Len(label) : label[i] = "!"
    /\ Len(hres.name.labels) = 2

RECURSIVE Filter(_, _)
Filter(s, keep) ==
    IF s = <<>> THEN <<>>
    ELSE (IF Head(s) \in keep THEN <<Head(s)>> ELSE <<>>) \o Filter(Tail(s), keep)

Hyphens(s) == Len(Filter(s, {"-"}))

\* the number of maximal runs of white space in s
WhitespaceRuns(s) ==
    Cardinality({i \in 1..Len(s) :
                    IsWhitespace(s[i]) /\ (i = 1 \/ ~IsWhitespace(s[i - 1]))})

\* what is left of a text without its hyphens, white space and deleted
\* characters, in lower case
Kept(s) == LowerAll(Filter(s, {"a", "A", "1", "_", "."}))

\* C4 (as amended): every maximal run of white space inside the Label, that
\* is between its first and last non-white-space characters, becomes exactly
\* one '-' of the hostname; white space at either end of the Label is
\* dropped.
C4_InnerRunsBecomeHyphen ==
    Sanitized =>
        LET t == to_string(hres.name)
        IN  /\ \A i \in 1..Len(t) : ~IsWhitespace(t[i])
            /\ Hyphens(t) = Hyphens(label) + WhitespaceRuns(Trim(label))
            /\ Kept(t) = Kept(label)

\* a Label with a run of two white-space characters inside it
C4_Witness ==
    /\ Sanitized
    /\ \E i \in 2..(Len(label) - 2) : IsWhitespace(label[i]) /\ IsWhitespace(label[i + 1])
    /\ WhitespaceRuns(Trim(label)) = 1
    /\ Hyphens(label) = 0

\* C4 (as claimed): every maximal run of white space of the Label becomes
\* exactly one '-' of the hostname.
C4_EveryRunBecomesHyphen ==
    Sanitized => Hyphens(to_string(hres.name)) = Hyphens(label) + WhitespaceRuns(label)

\* C5: a rejection by one of the three validation rules carries the Label as
\* it was given.
C5_RejectionCarriesInput ==
    (Rejected /\ hres.reason \in {"dot", "empty"}) => hres.carried = label

----------------------------------------------------------------------------
(* Properties of name ingestion *)

\* what a name yields when it is processed alone
Alone(name) ==
    IF ~name.some \/ Trim(name.value) = <<>> THEN None
    ELSE LET r == to_hostname(name.value)
         IN  IF r.ok THEN Some(append_domain(r.name, IngestDomain)) ELSE None

\* C8: whatever was processed before, an absent, blank or rejected name
\* yields None and any other name yields the Fqdn it yields alone; the
\* result is never a failure.
C8_SkipNeverAbort == ingested > 0 => lastRes = Alone(lastName)

\* a name entered after another was skipped
C8_Witness == ingested >= 2 /\ sawBad /\ lastRes # None /\ lastRes.some

----------------------------------------------------------------------------
(* Properties of domain and token resolution *)

\* C7 (as amended): without a string the default "domain." is returned; an
\* empty string fails with the validation error; a non-empty string gives
\* that string with '.' appended (as a DNS name, that is up to letter case)
\* or, when that text is no DNS name, the parser's error -- never the
\* default, and never an error when the string holds letters and digits only.
C7_DomainOrParseError ==
    domRes # Pending =>
        /\ ~tld.some => domRes.ok /\ to_string(domRes.name) = DOMAIN_NAME
        /\ (tld.some /\ Len(tld.value) = 0) =>
              ~domRes.ok /\ domRes.reason = "empty_domain"
        /\ (tld.some /\ Len(tld.value) > 0) =>
              /\ domRes.ok =>
                    /\ domRes.name.fqdn
                    /\ LowerAll(to_string(domRes.name)) = LowerAll(tld.value \o <<".">>)
              /\ ~domRes.ok => domRes.reason # "empty_domain"
              /\ (\A i \in 1..Len(tld.value) : IsAlphanumeric(tld.value[i])) => domRes.ok

\* a supplied domain of two labels was returned in absolute form
C7_Witness ==
    /\ domRes # Pending
    /\ tld.some
    /\ domRes.ok
    /\ Len(domRes.name.labels) = 2

\* C7 (as claimed): every non-empty string is returned with '.' appended.
C7_NonEmptyAlwaysAbsolute ==
    (domRes # Pending /\ tld.some /\ Len(tld.value) > 0) =>
        /\ domRes.ok
        /\ LowerAll(to_string(domRes.name)) = LowerAll(tld.value \o <<".">>)

\* C6: with a path the result is the trimmed contents of the file, empty or
\* not, and the environment variable is not read; without a path it is the
\* environment variable when that is set and not empty, and no token
\* otherwise.
C6_Precedence ==
    tokRes # Pending =>
        /\ tokArg.some => ~tokRes.envRead
        /\ (tokArg.some /\ ~tokFile.unreadable) =>
              /\ tokRes.kind = "returned"
              /\ tokRes.token = Some(Trim(tokFile.text))
        /\ ~tokArg.some =>
              /\ tokRes.kind = "returned"
              /\ tokRes.token.some <=> (~tokEnv.unset /\ tokEnv.text # <<>>)
              /\ tokRes.token.some => tokRes.token.value = tokEnv.text

\* a path to a file of white space, next to a set environment variable:
\* the empty token is returned
C6_Witness ==
    /\ tokRes # Pending
    /\ tokArg.some
    /\ ~tokFile.unreadable /\ tokFile.text # <<>>
    /\ ~tokEnv.unset /\ tokEnv.text # <<>>
    /\ tokRes.kind = "returned"
    /\ tokRes.token = Some(<<>>)

====
